---- MODULE Spec2Model ----
(***************************************************************************)
(* Model of mjai.bot.base.Bot (python/mjai/bot/base.py): the reactive loop *)
(* start/react, the default decision policy think, the action serialisers  *)
(* and the action-candidate accessors.  The rules engine (PlayerState,     *)
(* ActionCandidate of mjai.mlibriichi.state) is a collaborator whose code  *)
(* is not part of base.py; it is modelled from its documented contract.    *)
(***************************************************************************)
EXTENDS Integers, Sequences, FiniteSets, TLC

VARIABLES
    pc,               \* position of the process: "new", "read", "parse", "update", "think", "except", "write"
    player_id,        \* Bot.player_id
    player_state,     \* Bot.player_state (the rules engine's state)
    action_candidate, \* Bot.action_candidate
    line,             \* the line read by start, as react received it
    idx,              \* position of react's for loop in the event list
    resp,             \* the value react returns to start
    output,           \* the lines written to stdout: for each, the read it answers (0: an end-of-input read)
    eof,              \* stdin has reached end-of-input
    nRead,            \* history: number of input lines read
    eofReads,         \* history: number of reads that met end-of-input
    curLine,          \* history: number of the line being processed (0: end-of-input read)
    pre,              \* history: player_state and action_candidate when the line was read
    applied,          \* history: events accepted by update while processing the line
    thinkCalls,       \* history: invocations of think while processing the line
    thinkSaw,         \* history: the action_candidate think observed
    candLine,         \* history: the line whose processing stored action_candidate
    everApplied,      \* history: update has accepted an event at least once
    lastSnapshot,     \* history: the snapshot most recently returned by update
    raised,           \* history: the exception react's handler caught for the line
    hand,             \* the engine's concealed hand: player_state.tehai and player_state.akas_in_hand
    candidates,       \* what the efficiency search returned to find_improving_tiles
    called,           \* the hand operation last called: "none", "tehai_mjai", "find_improving_tiles"
    ret               \* the value that operation returned

vars == <<pc, player_id, player_state, action_candidate, line, idx, resp, output,
          eof, nRead, eofReads, curLine, pre, applied, thinkCalls, thinkSaw,
          candLine, everApplied, lastSnapshot, raised,
          hand, candidates, called, ret>>

\* the variables of the hand operations, which the reactive loop leaves alone
hvars == <<hand, candidates, called, ret>>

\* the variables of the reactive loop, which the hand operations leave alone
lvars == <<pc, player_id, player_state, action_candidate, line, idx, resp, output,
           eof, nRead, eofReads, curLine, pre, applied, thinkCalls, thinkSaw,
           candLine, everApplied, lastSnapshot, raised>>

----------------------------------------------------------------------------
(* Bounds of the model *)

MaxLines == 2
MaxBatch == 2
MaxEofReads == 1

Seats == {0, 1}
Tiles == {"5m", "1z"}
NoTile == "-"
\* the tile the modelled hand waits on and holds a pair of
PairTile == "1z"

----------------------------------------------------------------------------
(* Values *)

Ok(v) == [ok |-> TRUE, val |-> v]
Raise(e) == [ok |-> FALSE, exc |-> e]

None == [isNone |-> TRUE]

CandFields == {"can_discard", "can_riichi", "can_agari", "can_tsumo_agari",
               "can_ron_agari", "can_ryukyoku", "can_kakan", "can_daiminkan",
               "can_kan", "can_ankan", "can_pon", "can_chi", "can_chi_low",
               "can_chi_mid", "can_chi_high", "can_act", "can_pass",
               "target_actor"}

\* an ActionCandidate snapshot: every legality flag and the target seat
ActionCandidate(discard, tsumo_agari, ron_agari, pon, target) ==
    [isNone |-> FALSE,
     can_discard |-> discard, can_riichi |-> FALSE,
     can_agari |-> (tsumo_agari \/ ron_agari),
     can_tsumo_agari |-> tsumo_agari, can_ron_agari |-> ron_agari,
     can_ryukyoku |-> FALSE, can_kakan |-> FALSE, can_daiminkan |-> FALSE,
     can_kan |-> FALSE, can_ankan |-> FALSE, can_pon |-> pon,
     can_chi |-> FALSE, can_chi_low |-> FALSE, can_chi_mid |-> FALSE,
     can_chi_high |-> FALSE,
     can_act |-> (discard \/ tsumo_agari \/ ron_agari \/ pon),
     can_pass |-> (ron_agari \/ pon),
     target_actor |-> target]

NoAction(seat) == ActionCandidate(FALSE, FALSE, FALSE, FALSE, seat)

Events ==
    [type : {"tsumo", "dahai"}, actor : Seats, pai : Tiles]
      \cup [type : {"pon"}, actor : Seats]
      \cup [type : {"start_kyoku"}, kyoku : {1, 2}]
      \cup [type : {"bad"}]

RECURSIVE Batches(_)
Batches(n) ==
    IF n = 0 THEN {<<>>}
    ELSE LET shorter == Batches(n - 1)
         IN  shorter \cup {Append(b, e) : b \in {s \in shorter : Len(s) = n - 1}, e \in Events}

\* what json.loads makes of a line: a failure, or a list of events (possibly empty)
Lines ==
    {[json |-> FALSE, events |-> <<>>]}
      \cup {[json |-> TRUE, events |-> b] : b \in Batches(MaxBatch)}

\* readline() at end-of-input returns "", which is not JSON
EofLine == [json |-> FALSE, events |-> <<>>]

----------------------------------------------------------------------------
(* The rules engine: mjai.mlibriichi.state.PlayerState *)

PlayerState(seat) ==
    [player_id |-> seat, kyoku |-> 0, last_self_tsumo |-> NoTile,
     last_cans |-> NoAction(seat)]

\* whether update accepts the event in this state
PS_accepts(ps, ev) ==
    CASE ev.type = "bad" -> FALSE
      [] ev.type = "start_kyoku" -> TRUE
      [] ev.type = "tsumo" -> ~ps.last_cans.can_discard
      [] ev.type = "dahai" ->
            IF ev.actor = ps.player_id THEN ps.last_cans.can_discard
            ELSE ~ps.last_cans.can_discard
      [] ev.type = "pon" ->
            IF ev.actor = ps.player_id THEN ps.last_cans.can_pon
            ELSE ~ps.last_cans.can_discard

\* the snapshot update returns for an accepted event
PS_cans(ps, ev) ==
    CASE ev.type = "start_kyoku" -> NoAction(ps.player_id)
      [] ev.type = "tsumo" ->
            IF ev.actor = ps.player_id
            THEN ActionCandidate(TRUE, ev.pai = PairTile, FALSE, FALSE, ps.player_id)
            ELSE NoAction(ps.player_id)
      [] ev.type = "dahai" ->
            IF ev.actor = ps.player_id
            THEN NoAction(ps.player_id)
            ELSE ActionCandidate(FALSE, FALSE, ev.pai = PairTile, ev.pai = PairTile, ev.actor)
      [] ev.type = "pon" ->
            IF ev.actor = ps.player_id
            THEN ActionCandidate(TRUE, FALSE, FALSE, FALSE, ps.player_id)
            ELSE NoAction(ps.player_id)

\* the engine's state after an accepted event
PS_update(ps, ev) ==
    LET cans == PS_cans(ps, ev)
    IN  CASE ev.type = "start_kyoku" ->
                [ps EXCEPT !.kyoku = ev.kyoku - 1, !.last_self_tsumo = NoTile,
                           !.last_cans = cans]
          [] ev.type = "tsumo" ->
                IF ev.actor = ps.player_id
                THEN [ps EXCEPT !.last_self_tsumo = ev.pai, !.last_cans = cans]
                ELSE [ps EXCEPT !.last_cans = cans]
          [] ev.type = "dahai" ->
                IF ev.actor = ps.player_id
                THEN [ps EXCEPT !.last_self_tsumo = NoTile, !.last_cans = cans]
                ELSE [ps EXCEPT !.last_cans = cans]
          [] ev.type = "pon" -> [ps EXCEPT !.last_cans = cans]

\* PlayerState.last_self_tsumo(): fails when no draw has occurred this turn
PS_last_self_tsumo(ps) ==
    IF ps.last_self_tsumo = NoTile
    THEN Raise("PreconditionError")
    ELSE Ok(ps.last_self_tsumo)

----------------------------------------------------------------------------
(* Bot: accessors *)

\* variant of CandidateField: an absent candidate reads as "not legal" instead of failing
CandidateField_NoAssert(name) ==
    IF action_candidate = None
    THEN Ok(FALSE)
    ELSE Ok(action_candidate[name])

\* the action_candidate properties: assert the candidate exists, then pass a field through
CandidateField(name) ==
    IF action_candidate = None
    THEN Raise("AssertionError")
    ELSE Ok(action_candidate[name])

can_discard == CandidateField("can_discard")
target_actor == CandidateField("target_actor")

last_self_tsumo == PS_last_self_tsumo(player_state)

\* variant of kyoku: the engine's index is passed through as it is
kyoku_ZeroBased == player_state.kyoku

\* the current round, 1-based
kyoku == player_state.kyoku + 1

----------------------------------------------------------------------------
(* Bot: actions *)

action_nothing == [type |-> "none"]

action_discard(tile_str) ==
    LET last == PS_last_self_tsumo(player_state)
    IN  IF ~last.ok THEN last
        ELSE Ok([type |-> "dahai", pai |-> tile_str, actor |-> player_id,
                 tsumogiri |-> (tile_str = last.val)])

action_tsumo_agari ==
    LET target == target_actor
        pai == last_self_tsumo
    IN  IF ~target.ok THEN target
        ELSE IF ~pai.ok THEN pai
        ELSE Ok([type |-> "hora", actor |-> player_id, target |-> target.val,
                 pai |-> pai.val])

\* the default policy
think ==
    LET cd == can_discard
    IN  IF ~cd.ok THEN cd
        ELSE IF cd.val
             THEN LET tile_str == last_self_tsumo
                  IN  IF ~tile_str.ok THEN tile_str
                      ELSE action_discard(tile_str.val)
             ELSE Ok(action_nothing)

----------------------------------------------------------------------------
(* Bot: hand notation and discard ranking *)

\* bounds of the hands and search results drawn for the hand operations
MaxCount == 2
MaxCands == 2

TileIdx == 0..33
Digit == <<"1", "2", "3", "4", "5", "6", "7", "8", "9">>
zi_map == <<"E", "S", "W", "N", "P", "F", "C">>

\* the slots whose count varies over the hands drawn, and the slots always holding one tile
VarSlots == {4, 13, 22, 27}
FixedSlots == {0, 9, 18}

\* the hands the engine can hold: a red-five flag is set only when a five of the suit is held
Hands ==
    {h \in [tehai : {[i \in TileIdx |-> IF i \in VarSlots THEN f[i]
                                         ELSE IF i \in FixedSlots THEN 1 ELSE 0]
                        : f \in [VarSlots -> 0..MaxCount]},
            akas_in_hand : [0..2 -> BOOLEAN]] :
        \A k \in 0..2 : h.akas_in_hand[k] => h.tehai[4 + 9 * k] >= 1}

EmptyHand == [tehai |-> [i \in TileIdx |-> 0], akas_in_hand |-> [k \in 0..2 |-> FALSE]]

tehai_vec34 == hand.tehai
akas_in_hand == hand.akas_in_hand

RECURSIVE Repeat(_, _)
\* [x] * n
Repeat(x, n) == IF n = 0 THEN <<>> ELSE <<x>> \o Repeat(x, n - 1)

RECURSIVE tehai_mjai_loop(_, _, _)
\* the for loop of tehai_mjai from slot i on
tehai_mjai_loop(tehai, i, acc) ==
    IF i > 33 THEN acc
    ELSE LET tile_count == tehai[i]
             next ==
                 IF tile_count = 0 THEN acc
                 ELSE IF i = 4 THEN [acc EXCEPT !.akas = Append(@, "5mr")]
                 ELSE IF i = 4 + 9 THEN [acc EXCEPT !.akas = Append(@, "5pr")]
                 ELSE IF i = 4 + 18 THEN [acc EXCEPT !.akas = Append(@, "5sr")]
                 ELSE IF i < 9
                 THEN [acc EXCEPT !.ms = @ \o Repeat(Digit[i + 1] \o "m", tile_count)]
                 ELSE IF i < 18
                 THEN [acc EXCEPT !.ps = @ \o Repeat(Digit[i - 9 + 1] \o "p", tile_count)]
                 ELSE IF i < 27
                 THEN [acc EXCEPT !.ss = @ \o Repeat(Digit[i - 18 + 1] \o "s", tile_count)]
                 ELSE [acc EXCEPT !.zis = @ \o Repeat(zi_map[i - 27 + 1], tile_count)]
         IN  tehai_mjai_loop(tehai, i + 1, next)

tehai_mjai ==
    LET a == tehai_mjai_loop(hand.tehai, 0,
                             [ms |-> <<>>, ps |-> <<>>, ss |-> <<>>, zis |-> <<>>, akas |-> <<>>])
    IN  a.ms \o a.ps \o a.ss \o a.zis \o a.akas

\* mjai.bot.tools.vec34_index_to_mjai_tile
vec34_index_to_mjai_tile(i) ==
    IF i < 9 THEN Digit[i + 1] \o "m"
    ELSE IF i < 18 THEN Digit[i - 9 + 1] \o "p"
    ELSE IF i < 27 THEN Digit[i - 18 + 1] \o "s"
    ELSE zi_map[i - 27 + 1]

\* find_improving_tiles._aka
aka(tile) ==
    IF tile = "5s" /\ tehai_vec34[4] = 1 /\ akas_in_hand[0] THEN "5sr"
    ELSE IF tile = "5p" /\ tehai_vec34[4 + 9] = 1 /\ akas_in_hand[1] THEN "5pr"
    ELSE IF tile = "5p" /\ tehai_vec34[4 + 18] = 1 /\ akas_in_hand[2] THEN "5pr"
    ELSE tile

RECURSIVE InsertReversed(_, _)
\* variant of InsertDescending: an element goes before the elements of equal key
InsertReversed(s, x) ==
    IF s = <<>> THEN <<x>>
    ELSE IF Len(Head(s).improving) > Len(x.improving)
    THEN <<Head(s)>> \o InsertReversed(Tail(s), x)
    ELSE <<x>> \o s

RECURSIVE InsertDescending(_, _)
\* x put into a list sorted by descending key, after the elements of equal key
InsertDescending(s, x) ==
    IF s = <<>> THEN <<x>>
    ELSE IF Len(Head(s).improving) >= Len(x.improving)
    THEN <<Head(s)>> \o InsertDescending(Tail(s), x)
    ELSE <<x>> \o s

RECURSIVE sorted(_)
\* sorted(candidates, key=lambda x: len(x[1]), reverse=True): a stable sort
sorted(cands) ==
    IF cands = <<>> THEN <<>>
    ELSE InsertDescending(sorted(SubSeq(cands, 1, Len(cands) - 1)), cands[Len(cands)])

\* find_improving_tiles, given what the efficiency search returned
find_improving_tiles(found) ==
    LET cands == sorted(found)
    IN  [i \in 1..Len(cands) |->
            [discard_tile |-> aka(vec34_index_to_mjai_tile(cands[i].discard)),
             improving |-> [j \in 1..Len(cands[i].improving) |->
                               vec34_index_to_mjai_tile(cands[i].improving[j])]]]

\* the lists of improving tiles a candidate of the search may carry
ImprovingLists == {<<8>>, <<8, 26>>}

RECURSIVE SearchResultsOfLen(_, _)
SearchResultsOfLen(h, n) ==
    IF n = 0 THEN {<<>>}
    ELSE {Append(r, c) :
            r \in SearchResultsOfLen(h, n - 1),
            c \in [discard : {i \in VarSlots : h.tehai[i] > 0}, improving : ImprovingLists]}

\* what mlibriichi.tools.find_improving_tiles may return for a hand: one candidate
\* per discard, each discard a tile of the hand
SearchResults(h) ==
    {r \in UNION {SearchResultsOfLen(h, n) : n \in 0..MaxCands} :
        \A i, j \in 1..Len(r) : i # j => r[i].discard # r[j].discard}

----------------------------------------------------------------------------
(* The process *)

LoopInit ==
    /\ pc = "new"
    /\ player_id \in Seats
    /\ player_state = PlayerState(player_id)
    /\ action_candidate = None
    /\ line = EofLine
    /\ idx = 0
    /\ resp = action_nothing
    /\ output = <<>>
    /\ eof = FALSE
    /\ nRead = 0
    /\ eofReads = 0
    /\ curLine = 0
    /\ pre = [ps |-> player_state, ac |-> None]
    /\ applied = <<>>
    /\ thinkCalls = 0
    /\ thinkSaw = None
    /\ candLine = 0
    /\ everApplied = FALSE
    /\ lastSnapshot = None
    /\ raised = "-"

\* the bot as constructed; no hand operation is called while the loop is followed
Init ==
    /\ LoopInit
    /\ hand = EmptyHand
    /\ candidates = <<>>
    /\ called = "none"
    /\ ret = <<>>

\* start(player_id): the seat id is stored and the loop is entered
Start ==
    /\ pc = "new"
    /\ UNCHANGED hvars
    /\ \E seat \in Seats : player_id' = seat
    /\ pc' = "read"
    /\ UNCHANGED <<player_state, action_candidate, line, idx, resp, output, eof,
                   nRead, eofReads, curLine, pre, applied, thinkCalls, thinkSaw,
                   candLine, everApplied, lastSnapshot, raised>>

\* the bookkeeping of a read, whatever it returned
BeginLine(l, n) ==
    /\ line' = l
    /\ curLine' = n
    /\ idx' = 0
    /\ pre' = [ps |-> player_state, ac |-> action_candidate]
    /\ applied' = <<>>
    /\ thinkCalls' = 0
    /\ thinkSaw' = None
    /\ raised' = "-"
    /\ pc' = "parse"

\* sys.stdin.readline().strip() returns a line; react is called with it
ReadLine ==
    /\ pc = "read"
    /\ UNCHANGED hvars
    /\ ~eof
    /\ nRead < MaxLines
    /\ nRead' = nRead + 1
    /\ \E l \in Lines : BeginLine(l, nRead + 1)
    /\ UNCHANGED <<player_id, player_state, action_candidate, resp, output, eof,
                   eofReads, candLine, everApplied, lastSnapshot>>

\* sys.stdin.readline() meets end-of-input: it returns "" and react is called with it
ReadEof ==
    /\ pc = "read"
    /\ UNCHANGED hvars
    /\ eofReads < MaxEofReads
    /\ eof' = TRUE
    /\ eofReads' = eofReads + 1
    /\ BeginLine(EofLine, 0)
    /\ UNCHANGED <<player_id, player_state, action_candidate, resp, output,
                   nRead, candLine, everApplied, lastSnapshot>>

\* variant of Parse: the emptiness test is missing, an empty list goes on to think
Parse_NoEmptyCheck ==
    /\ pc = "parse"
    /\ UNCHANGED hvars
    /\ IF ~line.json
       THEN /\ raised' = "JSONDecodeError"
            /\ pc' = "except"
            /\ idx' = idx
       ELSE /\ raised' = raised
            /\ pc' = IF Len(line.events) = 0 THEN "think" ELSE "update"
            /\ idx' = 1
    /\ UNCHANGED <<player_id, player_state, action_candidate, line, resp, output,
                   eof, nRead, eofReads, curLine, pre, applied, thinkCalls,
                   thinkSaw, candLine, everApplied, lastSnapshot>>

\* react: json.loads and the emptiness test
Parse ==
    /\ pc = "parse"
    /\ UNCHANGED hvars
    /\ IF ~line.json
       THEN /\ raised' = "JSONDecodeError"
            /\ pc' = "except"
            /\ idx' = idx
       ELSE IF Len(line.events) = 0
       THEN /\ raised' = "ValueError"
            /\ pc' = "except"
            /\ idx' = idx
       ELSE /\ raised' = raised
            /\ pc' = "update"
            /\ idx' = 1
    /\ UNCHANGED <<player_id, player_state, action_candidate, line, resp, output,
                   eof, nRead, eofReads, curLine, pre, applied, thinkCalls,
                   thinkSaw, candLine, everApplied, lastSnapshot>>

\* variant of Update: a rejected event is skipped and the loop goes on
Update_SwallowsRejection ==
    /\ pc = "update"
    /\ UNCHANGED hvars
    /\ LET event == line.events[idx]
       IN  IF PS_accepts(player_state, event)
           THEN /\ player_state' = PS_update(player_state, event)
                /\ action_candidate' = PS_cans(player_state, event)
                /\ lastSnapshot' = PS_cans(player_state, event)
                /\ applied' = Append(applied, event)
                /\ everApplied' = TRUE
                /\ candLine' = curLine
           ELSE UNCHANGED <<player_state, action_candidate, lastSnapshot,
                            applied, everApplied, candLine>>
    /\ idx' = idx + 1
    /\ pc' = IF idx = Len(line.events) THEN "think" ELSE "update"
    /\ UNCHANGED <<player_id, line, resp, output, eof, nRead, eofReads, curLine,
                   pre, thinkCalls, thinkSaw, raised>>

\* variant of Update: only the first event's snapshot is stored
Update_FirstSnapshot ==
    /\ pc = "update"
    /\ UNCHANGED hvars
    /\ LET event == line.events[idx]
       IN  IF PS_accepts(player_state, event)
           THEN /\ player_state' = PS_update(player_state, event)
                /\ action_candidate' = IF idx = 1 THEN PS_cans(player_state, event)
                                       ELSE action_candidate
                /\ lastSnapshot' = PS_cans(player_state, event)
                /\ applied' = Append(applied, event)
                /\ everApplied' = TRUE
                /\ candLine' = curLine
                /\ idx' = idx + 1
                /\ pc' = IF idx = Len(line.events) THEN "think" ELSE "update"
                /\ raised' = raised
           ELSE /\ raised' = "EngineError"
                /\ pc' = "except"
                /\ UNCHANGED <<player_state, action_candidate, lastSnapshot,
                               applied, everApplied, candLine, idx>>
    /\ UNCHANGED <<player_id, line, resp, output, eof, nRead, eofReads, curLine,
                   pre, thinkCalls, thinkSaw>>

\* react: one iteration of the for loop over the events
Update ==
    /\ pc = "update"
    /\ UNCHANGED hvars
    /\ LET event == line.events[idx]
       IN  IF PS_accepts(player_state, event)
           THEN /\ player_state' = PS_update(player_state, event)
                /\ action_candidate' = PS_cans(player_state, event)
                /\ lastSnapshot' = PS_cans(player_state, event)
                /\ applied' = Append(applied, event)
                /\ everApplied' = TRUE
                /\ candLine' = curLine
                /\ idx' = idx + 1
                /\ pc' = IF idx = Len(line.events) THEN "think" ELSE "update"
                /\ raised' = raised
           ELSE /\ raised' = "EngineError"
                /\ pc' = "except"
                /\ UNCHANGED <<player_state, action_candidate, lastSnapshot,
                               applied, everApplied, candLine, idx>>
    /\ UNCHANGED <<player_id, line, resp, output, eof, nRead, eofReads, curLine,
                   pre, thinkCalls, thinkSaw>>

\* variant of Think: a failure of think leaves react instead of reaching its handler
Think_Propagates ==
    /\ pc = "think"
    /\ UNCHANGED hvars
    /\ thinkCalls' = thinkCalls + 1
    /\ thinkSaw' = action_candidate
    /\ LET r == think
       IN  IF r.ok
           THEN /\ resp' = r.val
                /\ pc' = "write"
                /\ raised' = raised
           ELSE /\ raised' = r.exc
                /\ pc' = "failed"
                /\ resp' = resp
    /\ UNCHANGED <<player_id, player_state, action_candidate, line, idx, output,
                   eof, nRead, eofReads, curLine, pre, applied, candLine,
                   everApplied, lastSnapshot>>

\* react: resp = self.think(); return resp
Think ==
    /\ pc = "think"
    /\ UNCHANGED hvars
    /\ thinkCalls' = thinkCalls + 1
    /\ thinkSaw' = action_candidate
    /\ LET r == think
       IN  IF r.ok
           THEN /\ resp' = r.val
                /\ pc' = "write"
                /\ raised' = raised
           ELSE /\ raised' = r.exc
                /\ pc' = "except"
                /\ resp' = resp
    /\ UNCHANGED <<player_id, player_state, action_candidate, line, idx, output,
                   eof, nRead, eofReads, curLine, pre, applied, candLine,
                   everApplied, lastSnapshot>>

\* variant of Except: the handler restores the state the line was read in
Except_RollsBack ==
    /\ pc = "except"
    /\ UNCHANGED hvars
    /\ resp' = [type |-> "none"]
    /\ player_state' = pre.ps
    /\ action_candidate' = pre.ac
    /\ pc' = "write"
    /\ UNCHANGED <<player_id, line, idx, output,
                   eof, nRead, eofReads, curLine, pre, applied, thinkCalls,
                   thinkSaw, candLine, everApplied, lastSnapshot, raised>>

\* variant of Except: the handler also drops the stored candidate
Except_ClearsCandidate ==
    /\ pc = "except"
    /\ UNCHANGED hvars
    /\ resp' = [type |-> "none"]
    /\ action_candidate' = None
    /\ pc' = "write"
    /\ UNCHANGED <<player_id, player_state, line, idx, output,
                   eof, nRead, eofReads, curLine, pre, applied, thinkCalls,
                   thinkSaw, candLine, everApplied, lastSnapshot, raised>>

\* react: except Exception: log to stderr, then return the no-op action
Except ==
    /\ pc = "except"
    /\ UNCHANGED hvars
    /\ resp' = [type |-> "none"]
    /\ pc' = "write"
    /\ UNCHANGED <<player_id, player_state, action_candidate, line, idx, output,
                   eof, nRead, eofReads, curLine, pre, applied, thinkCalls,
                   thinkSaw, candLine, everApplied, lastSnapshot, raised>>

\* start: sys.stdout.write(resp + "\n"); flush; back to the top of the loop
Write ==
    /\ pc = "write"
    /\ UNCHANGED hvars
    /\ output' = Append(output, curLine)
    /\ pc' = "read"
    \* react's frame is gone: its locals and the history of the line are dropped
    /\ line' = EofLine
    /\ idx' = 0
    /\ resp' = action_nothing
    /\ curLine' = 0
    /\ pre' = [ps |-> player_state, ac |-> action_candidate]
    /\ applied' = <<>>
    /\ thinkCalls' = 0
    /\ thinkSaw' = None
    /\ raised' = "-"
    /\ UNCHANGED <<player_id, player_state, action_candidate, eof, nRead,
                   eofReads, candLine, everApplied, lastSnapshot>>

Next ==
    \/ Start
    \/ ReadLine
    \/ ReadEof
    \/ Parse
    \/ Update
    \/ Think
    \/ Except
    \/ Write

Spec == Init /\ [][Next]_vars

----------------------------------------------------------------------------
(* The hand operations, called on a bot holding any of the hands *)

HandInit ==
    /\ LoopInit
    /\ player_id = 0
    /\ hand \in Hands
    /\ candidates = <<>>
    /\ called = "none"
    /\ ret = <<>>

CallTehaiMjai ==
    /\ called = "none"
    /\ called' = "tehai_mjai"
    /\ ret' = tehai_mjai
    /\ UNCHANGED <<hand, candidates>>
    /\ UNCHANGED lvars

CallFindImprovingTiles ==
    /\ called = "none"
    /\ called' = "find_improving_tiles"
    /\ \E found \in SearchResults(hand) :
          /\ candidates' = found
          /\ ret' = find_improving_tiles(found)
    /\ UNCHANGED hand
    /\ UNCHANGED lvars

HandNext ==
    \/ CallTehaiMjai
    \/ CallFindImprovingTiles

SpecHand == HandInit /\ [][HandNext]_vars

----------------------------------------------------------------------------
(* Reference semantics of a batch, used to state the properties: the events  *)
(* of a list applied in order from a given state up to the first rejection.  *)

RECURSIVE ApplyInOrder(_, _, _, _)
ApplyInOrder(ps, ac, done, evs) ==
    IF evs = <<>>
    THEN [ps |-> ps, ac |-> ac, done |-> done, rejected |-> FALSE]
    ELSE IF ~PS_accepts(ps, Head(evs))
    THEN [ps |-> ps, ac |-> ac, done |-> done, rejected |-> TRUE]
    ELSE ApplyInOrder(PS_update(ps, Head(evs)), PS_cans(ps, Head(evs)),
                      Append(done, Head(evs)), Tail(evs))

\* the batch of the current line, applied from the state the line was read in
Expected == ApplyInOrder(pre.ps, pre.ac, <<>>, line.events)

Malformed == ~line.json \/ Len(line.events) = 0
Returned == pc = "write"
NoOp == [type |-> "none"]

----------------------------------------------------------------------------
(* C1: the loop writes exactly one output line per input line, in input      *)
(* order, and never writes a line that does not answer an input line.        *)
C1_OneOutputPerLine ==
    /\ Len(output) <= nRead
    /\ \A i \in 1..Len(output) : output[i] = i
    /\ (pc = "read" => Len(output) = nRead)

(* C2: end-of-input is a clean shutdown: once the read reports end-of-input  *)
(* the loop does not read again, the read is not handled as an error, and no *)
(* output line is written for it.                                            *)
C2_EofCleanShutdown ==
    /\ eof => pc # "read"
    /\ eof => raised = "-"
    /\ \A i \in 1..Len(output) : output[i] # 0

(* C3: for a line that is not JSON or decodes to an empty list, react        *)
(* returns the no-op action and leaves player_state and action_candidate as  *)
(* they were when the line arrived.                                          *)
C3_MalformedLineIsNoOp ==
    (Returned /\ Malformed) =>
        /\ resp = NoOp
        /\ player_state = pre.ps
        /\ action_candidate = pre.ac

C3_Witness ==
    /\ Returned /\ Malformed
    /\ curLine > 1
    /\ pre.ac # None
    /\ pre.ac.can_discard

(* C4: when the engine rejects an event of the batch, react answers the line *)
(* with the no-op action, think is not invoked for the line, and the loop    *)
(* can go on to the next read.                                               *)
C4_RejectedBatchIsNoOp ==
    (pc \in {"think", "except", "write"} /\ line.json /\ Expected.rejected) =>
        /\ pc # "think"
        /\ thinkCalls = 0
        /\ (Returned => resp = NoOp)

C4_Witness ==
    /\ Returned
    /\ line.json /\ Expected.rejected
    /\ Len(Expected.done) > 0
    /\ pre.ac # None /\ pre.ac.can_discard

(* C5: default policy: whenever can_discard is true after the batch the      *)
(* emitted action is a dahai with tsumogiri = true and pai the last          *)
(* self-drawn tile, also when discard became legal without a self-draw (a    *)
(* call); whenever can_discard is false it is the no-op action.              *)
C5_DefaultPolicy ==
    (Returned /\ thinkCalls = 1) =>
        IF action_candidate.can_discard
        THEN /\ resp.type = "dahai"
             /\ resp.tsumogiri
             /\ (player_state.last_self_tsumo # NoTile
                    => resp.pai = player_state.last_self_tsumo)
        ELSE resp = NoOp

(* C6: for a batch e1..en that is accepted whole, react applies each event   *)
(* once, in array order, invokes think once, after en, and think observes    *)
(* the snapshot returned for en.                                             *)
C6_BatchAppliedInOrder ==
    /\ (pc = "think" => applied = line.events)
    /\ (Returned /\ line.json /\ Len(line.events) > 0 /\ ~Expected.rejected) =>
          /\ applied = line.events
          /\ player_state = Expected.ps
          /\ thinkCalls = 1
          /\ thinkSaw = Expected.ac

C6_Witness ==
    /\ Returned
    /\ Len(line.events) = MaxBatch
    /\ ~Expected.rejected
    /\ thinkSaw # PS_cans(pre.ps, line.events[1])
    /\ thinkCalls = 1

(* C7: whenever think is invoked, action_candidate is present and was stored *)
(* while processing the current input line.                                  *)
C7_ThinkSeesFreshCandidate ==
    (pc = "think" \/ thinkCalls > 0) =>
        /\ action_candidate # None
        /\ curLine > 0
        /\ candLine = curLine
        /\ (thinkCalls > 0 => thinkSaw = lastSnapshot)

C7_Witness ==
    /\ pc = "think"
    /\ curLine > 1
    /\ pre.ac # None
    /\ pre.ac # action_candidate

(* C8: for every tile passed to action_discard where a discard is legal, the *)
(* dahai action carries the tile as pai, the bot's seat as actor, and        *)
(* tsumogiri iff the tile is the last self-drawn tile; with no self-draw,    *)
(* the action has tsumogiri = false.                                         *)
C8_DiscardAction ==
    (action_candidate # None /\ action_candidate.can_discard) =>
        \A t \in Tiles :
            LET r == action_discard(t)
            IN  /\ r.ok
                /\ r.val.type = "dahai"
                /\ r.val.pai = t
                /\ r.val.actor = player_id
                /\ (r.val.tsumogiri <=> (t = player_state.last_self_tsumo))

(* C9: while no event has been applied, every action-candidate accessor      *)
(* fails its precondition; once an event has been applied each returns the   *)
(* field of the latest snapshot.                                             *)
C9_AccessorsNeedSnapshot ==
    \A f \in CandFields :
        LET r == CandidateField(f)
        IN  IF ~everApplied
            THEN ~r.ok /\ r.exc = "AssertionError"
            ELSE r.ok /\ r.val = lastSnapshot[f]

C9_Witness ==
    /\ ~everApplied
    /\ Len(output) = MaxLines
    /\ ~can_discard.ok
    /\ ~target_actor.ok

(* C10 as stated: a precondition failure raised while think runs is surfaced *)
(* to the caller of react: it never reaches react's handler and is never     *)
(* answered with the no-op action.                                           *)
PreconditionFailures == {"AssertionError", "PreconditionError"}

C10_SurfacedAsHardFailure ==
    (raised \in PreconditionFailures) => pc \notin {"except", "write"}

(* C10 amended: a precondition failure raised while think runs is caught by  *)
(* react's handler like a protocol or engine error and the line is answered  *)
(* with the no-op action.                                                    *)
C10_PreconditionFailureIsNoOp ==
    (thinkCalls = 1 /\ ~think.ok) =>
        /\ pc \in {"except", "write"}
        /\ raised = think.exc
        /\ (Returned => resp = NoOp)

C10_Witness ==
    /\ Returned
    /\ thinkCalls = 1
    /\ ~think.ok
    /\ think.exc = "PreconditionError"
    /\ action_candidate.can_discard

----------------------------------------------------------------------------
(* Reference notions for the hand operations *)

FiveSlot(k) == 4 + 9 * k
PlainFive == [k \in 0..2 |-> CASE k = 0 -> "5m" [] k = 1 -> "5p" [] k = 2 -> "5s"]
RedFive == [k \in 0..2 |-> CASE k = 0 -> "5mr" [] k = 1 -> "5pr" [] k = 2 -> "5sr"]

RECURSIVE SumFrom(_, _)
SumFrom(tehai, i) == IF i > 33 THEN 0 ELSE tehai[i] + SumFrom(tehai, i + 1)

Occurrences(seq, x) == Cardinality({i \in 1..Len(seq) : seq[i] = x})

\* the substitution each suit is due: its own five slot and its own flag
AkaContract(tile) ==
    IF \E k \in 0..2 : tile = PlainFive[k] /\ hand.tehai[FiveSlot(k)] = 1
                        /\ hand.akas_in_hand[k]
    THEN RedFive[CHOOSE k \in 0..2 : tile = PlainFive[k]]
    ELSE tile

\* a discard symbol without its red mark
Plain(tile) ==
    IF \E k \in 0..2 : tile = RedFive[k]
    THEN PlainFive[CHOOSE k \in 0..2 : tile = RedFive[k]]
    ELSE tile

\* the place candidate i of the search is due in a stable sort by descending count
Place(found, i) ==
    1 + Cardinality({j \in 1..Len(found) : Len(found[j].improving) > Len(found[i].improving)})
      + Cardinality({j \in 1..(i - 1) : Len(found[j].improving) = Len(found[i].improving)})

(* C11: the list tehai_mjai returns is as long as the sum of the counts: a   *)
(* red five replaces exactly one plain five of its suit, the other fives of  *)
(* the suit still appear as plain fives.                                     *)
C11_TehaiMjaiLength ==
    (called = "tehai_mjai") =>
        /\ Len(ret) = SumFrom(hand.tehai, 0)
        /\ \A k \in 0..2 :
              hand.akas_in_hand[k] =>
                  /\ Occurrences(ret, RedFive[k]) = 1
                  /\ Occurrences(ret, PlainFive[k]) = hand.tehai[FiveSlot(k)] - 1

(* C12: tehai_mjai holds the red-five symbol of a suit only if the suit's    *)
(* flag is set and its five slot is not empty; plain fives come out as plain *)
(* five symbols.                                                             *)
C12_RedFiveOnlyWhenFlagged ==
    (called = "tehai_mjai") =>
        \A k \in 0..2 :
            /\ Occurrences(ret, RedFive[k]) > 0
                  => (hand.akas_in_hand[k] /\ hand.tehai[FiveSlot(k)] >= 1)
            /\ (hand.tehai[FiveSlot(k)] >= 1 /\ ~hand.akas_in_hand[k])
                  => Occurrences(ret, PlainFive[k]) = hand.tehai[FiveSlot(k)]

(* C13: find_improving_tiles returns "5Xr" for a discard "5X" exactly when   *)
(* one tile is held in suit X's five slot and suit X's flag is set, and the  *)
(* discard symbol unchanged in every other case.                             *)
C13_AkaPerSuit ==
    (called = "find_improving_tiles") =>
        {ret[i].discard_tile : i \in 1..Len(ret)}
              = {AkaContract(vec34_index_to_mjai_tile(candidates[i].discard))
                    : i \in 1..Len(candidates)}

(* C14: find_improving_tiles returns exactly the candidates of the search,   *)
(* by descending number of improving tiles, candidates with the same number  *)
(* in the order the search returned them.                                    *)
C14_StableDescendingRanking ==
    (called = "find_improving_tiles") =>
        /\ Len(ret) = Len(candidates)
        /\ \A i \in 1..Len(candidates) :
              LET r == ret[Place(candidates, i)]
              IN  /\ Plain(r.discard_tile) = vec34_index_to_mjai_tile(candidates[i].discard)
                  /\ Len(r.improving) = Len(candidates[i].improving)
                  /\ \A j \in 1..Len(r.improving) :
                        r.improving[j] = vec34_index_to_mjai_tile(candidates[i].improving[j])
        /\ \A i \in 1..(Len(ret) - 1) : Len(ret[i].improving) >= Len(ret[i + 1].improving)

C14_Witness ==
    /\ called = "find_improving_tiles"
    /\ Len(candidates) = MaxCands
    /\ Len(candidates[1].improving) = Len(candidates[2].improving)
    /\ Plain(ret[1].discard_tile) = vec34_index_to_mjai_tile(candidates[1].discard)
    /\ ret[1].discard_tile # ret[2].discard_tile

(* C15: where a self-draw win is legal, action_tsumo_agari emits a hora      *)
(* action whose actor is the bot's seat id, whose target is the target seat  *)
(* of the current action candidate, the bot's own seat, and whose pai is the *)
(* last self-drawn tile.                                                     *)
C15_TsumoAgariAction ==
    (action_candidate # None /\ action_candidate.can_tsumo_agari) =>
        LET r == action_tsumo_agari
        IN  /\ r.ok
            /\ r.val.type = "hora"
            /\ r.val.actor = player_id
            /\ r.val.target = action_candidate.target_actor
            /\ r.val.target = r.val.actor
            /\ r.val.pai = player_state.last_self_tsumo

(* C16: the round Bot.kyoku surfaces is the engine's 0-based index plus one: *)
(* it is at least 1, and 1 for the first round.                              *)
C16_KyokuOneBased ==
    /\ kyoku = player_state.kyoku + 1
    /\ kyoku >= 1
    /\ (~everApplied => kyoku = 1)
    /\ \A i \in 1..Len(applied) :
          (applied[i].type = "start_kyoku"
             /\ \A j \in (i + 1)..Len(applied) : applied[j].type # "start_kyoku")
          => kyoku = applied[i].kyoku

C16_Witness ==
    /\ everApplied
    /\ kyoku = 2
    /\ \E i \in 1..Len(applied) : applied[i].type = "start_kyoku"

(* C17: the seat id written as actor in outbound actions is the seat id the  *)
(* player state was constructed with, also after start(player_id).           *)
C17_ActorIsEngineSeat ==
    player_id = player_state.player_id

(* C18: when event k of a batch is rejected, the events before it stay       *)
(* applied, the stored candidate is the snapshot of event k-1 (or the one    *)
(* held before the line), and no later event is applied.                     *)
C18_RejectedBatchKeepsPrefix ==
    (pc \in {"except", "write"} /\ line.json /\ Expected.rejected) =>
        /\ applied = Expected.done
        /\ applied = SubSeq(line.events, 1, Len(applied))
        /\ Len(applied) < Len(line.events)
        /\ player_state = Expected.ps
        /\ action_candidate = Expected.ac

C18_Witness ==
    /\ Returned
    /\ line.json /\ Expected.rejected
    /\ Len(applied) = 1
    /\ player_state # pre.ps
    /\ action_candidate # pre.ac
    /\ pre.ac # None

====
